---- MODULE Spec2Model ----
(***************************************************************************)
(* Morse-code calculator watch face (morsecalc_face.c): the symbol buffer, *)
(* the token buffer, the dispatcher of completed characters and the        *)
(* renderer of the 10-position display.                                    *)
(*                                                                         *)
(* Characters are one-character strings; NUL is the empty string.  The     *)
(* display is a sequence of 10 characters, display position p being        *)
(* element p+1.                                                            *)
(***************************************************************************)
EXTENDS Integers, Sequences, FiniteSets, TLC

VARIABLES
    ctx,        \* *context_ptr != NULL : the session has been allocated
    b,          \* mcs->mc->b, the Morse symbols held; mcs->mc->bidx = Len(b)
    token,      \* mcs->token[0 .. MORSECALC_TOKEN_LEN-1]
    idxt,       \* mcs->idxt
    stack,      \* mcs->cs->stack[0 .. s-1]; mcs->cs->s = Len(stack)
    display,    \* the 10 display positions
    view,       \* the render function that last cleared and redrew the display
    calcLog,    \* the calls of calc_input made by the latest hook: token passed, status returned
    reads,      \* the indices of cs->stack read by the latest morsecalc_print_stack
    did,        \* what the latest hook did: the dispatcher case it took (or "activate"),
                \* idxt when it began, whether an error literal was on display then
    moved       \* movement_move_to_next_face() was requested and not yet served

vars == <<ctx, b, token, idxt, stack, display, view, calcLog, reads, did, moved>>

session == <<ctx, b, token, idxt, stack>>

-----------------------------------------------------------------------------
(* Constants of the program and bounds of the model *)

MORSECALC_TOKEN_LEN == 9

MC_BUFFER_LEN == 5

NUM_CHARS == 10

\* the deepest calculator stack the model lets calc_input build
MaxStack == 2

NUL == ""

Main(d) == SubSeq(d, 5, 10)

\* the literals of the errors: calculator status and full token
ErrorWords ==
    {<<"c", "m", "d", "e", "r", "r">>, <<"s", "t", "k", "e", "r", "r">>,
     <<" ", " ", " ", "e", "r", "r">>, <<" ", " ", "f", "u", "l", "l">>}

ErrShown(d) == Main(d) \in ErrorWords

\* the record of a hook that dispatched no completed character
NoDispatch(d) == [case |-> "none", n0 |-> 0, err0 |-> ErrShown(d)]

DOT == "."

DASH == "-"

-----------------------------------------------------------------------------
(* Values *)

\* A double: zero, nan, +inf, -inf, or the finite nonzero (-1)^neg * m * 10^e
Fin(neg, m, e) == [k |-> "fin", neg |-> neg, m |-> m, e |-> e]

\* the values the modelled calculator pushes
Vals == {Fin(FALSE, 25, -1)}

RECURSIVE Pow10(_)
Pow10(n) == IF n <= 0 THEN 1 ELSE 10 * Pow10(n - 1)

RECURSIVE NumDigits(_)
NumDigits(m) == IF m < 10 THEN 1 ELSE 1 + NumDigits(m \div 10)

Min(x, y) == IF x <= y THEN x ELSE y

\* '0' + n as a character
Digits == <<"0", "1", "2", "3", "4", "5", "6", "7", "8", "9">>

AfterDigits == <<":", ";", "<", "=", ">", "?", "@", "A", "B", "C", "D", "E">>

\* the characters '0'-9 .. '0'-1
BeforeDigits == <<"'", "(", ")", "*", "+", ",", "-", ".", "/">>

CharPlus0(n) ==
    IF n \in 0..9 THEN Digits[n + 1]
    ELSE IF n - 9 \in DOMAIN AfterDigits THEN AfterDigits[n - 9]
    ELSE IF n + 10 \in DOMAIN BeforeDigits THEN BeforeDigits[n + 10]
    ELSE "?"

\* a / n and a % n of C for n > 0: the quotient truncates toward zero
CDiv(a, n) == IF a >= 0 \/ a % n = 0 THEN a \div n ELSE (a \div n) + 1

CMod(a, n) == a - n * CDiv(a, n)

\* the largest n for which pow(10.0, n) is a finite double; beyond it pow
\* returns +infinity
DBL_MAX_10_EXP == 308

INT_MAX == 2147483647

INT_MIN == -INT_MAX - 1

\* int digits = round(x) for x = +infinity: the value cannot be represented,
\* the conversion is undefined; builds yield INT_MIN (x86, the "integer
\* indefinite" value) or INT_MAX (ARM and soft-float, which saturate)
IntOfInfinity == {INT_MIN, INT_MAX}

\* a string literal as its sequence of characters
Chars6(s) ==
    CASE s = "     0" -> <<" ", " ", " ", " ", " ", "0">>
      [] s = "   nan" -> <<" ", " ", " ", "n", "a", "n">>
      [] s = "   inf" -> <<" ", " ", " ", "i", "n", "f">>
      [] s = "    uf" -> <<" ", " ", " ", " ", "u", "f">>
      [] s = "    of" -> <<" ", " ", " ", " ", "o", "f">>
      [] s = " empty" -> <<" ", "e", "m", "p", "t", "y">>
      [] s = "  full" -> <<" ", " ", "f", "u", "l", "l">>
      [] s = "cmderr" -> <<"c", "m", "d", "e", "r", "r">>
      [] s = "stkerr" -> <<"s", "t", "k", "e", "r", "r">>
      [] s = "   err" -> <<" ", " ", " ", "e", "r", "r">>

Blank10 == [i \in 1..NUM_CHARS |-> " "]

-----------------------------------------------------------------------------
(* Display driver *)

watch_display_character(d, c, pos) ==
    IF pos \in 0..(NUM_CHARS - 1) THEN [d EXCEPT ![pos + 1] = c] ELSE d

\* writes the characters of str from position pos on, up to the last position
watch_display_string(d, str, pos) ==
    [p \in 1..NUM_CHARS |->
        IF p - 1 >= pos /\ p - pos \in 1..Len(str) THEN str[p - pos] ELSE d[p]]

-----------------------------------------------------------------------------
(* Morse symbol buffer and decoder *)

mc_reset == <<>>

mc_input(buf, c) ==
    IF c \in {DOT, DASH} /\ Len(buf) < MC_BUFFER_LEN THEN Append(buf, c) ELSE buf

\* the decode table: the characters the dispatcher tells apart, two digits,
\* and none (NUL) for every other sequence
mc_dec(buf) ==
    CASE buf = <<>> -> " "
      [] buf = <<DOT, DASH, DASH, DASH, DASH>> -> "1"
      [] buf = <<DOT, DOT, DASH, DASH, DASH>> -> "2"
      [] buf = <<DASH, DOT, DASH, DASH, DOT>> -> "("
      [] buf = <<DASH, DOT, DASH, DOT, DASH>> -> "S"
      [] OTHER -> NUL

-----------------------------------------------------------------------------
(* Calculator engine *)

calc_init == <<>>

StatusCodes == {0, -1, -2, -3, 1}

\* calc_input(cs, token): a status and the stack it leaves
calc_input(stk, tok) ==
    {[status |-> 0, stack |-> stk]}
      \cup {[status |-> 0, stack |-> Append(stk, v)] : v \in
                IF Len(stk) < MaxStack THEN Vals ELSE {}}
      \cup {[status |-> 0, stack |-> SubSeq(stk, 1, Len(stk) - 1)] : x \in
                IF Len(stk) > 0 THEN {0} ELSE {}}
      \cup {[status |-> st, stack |-> stk] : st \in StatusCodes \ {0}}

-----------------------------------------------------------------------------
(* Token buffer *)

TokenIdx == 0..(MORSECALC_TOKEN_LEN - 1)

\* memset(mcs->token, '\0', MORSECALC_TOKEN_LEN)
EmptyToken == [i \in TokenIdx |-> NUL]

\* strlen(tok): the index of the first NUL (the array's end if it holds none)
strlen(tok) ==
    IF \E i \in TokenIdx : tok[i] = NUL
    THEN CHOOSE i \in TokenIdx : tok[i] = NUL /\ \A j \in 0..(i - 1) : tok[j] # NUL
    ELSE MORSECALC_TOKEN_LEN

\* the C string that starts at tok + from
CString(tok, from) == [i \in 1..(strlen(tok) - from) |-> tok[from + i - 1]]

\* morsecalc_reset_token: the token and idxt it leaves
morsecalc_reset_token == [token |-> EmptyToken, idxt |-> 0]

\* EraseLast moving idxt back without storing the NUL
EraseLast_KeepChar(tok, n) ==
    IF n > 0 THEN [token |-> tok, idxt |-> n - 1] ELSE [token |-> tok, idxt |-> n]

\* EraseLast without its idxt > 0 test
EraseLast_NoGuard(tok, n) == [token |-> [tok EXCEPT ![n - 1] = NUL], idxt |-> n - 1]

\* case '(' : erase the previous character of the token
EraseLast(tok, n) ==
    IF n > 0
    THEN [token |-> [tok EXCEPT ![n - 1] = NUL], idxt |-> n - 1]
    ELSE [token |-> tok, idxt |-> n]

\* HasRoom testing against the array length instead of the length less one
HasRoom_ArrayLen(n) == n < MORSECALC_TOKEN_LEN

\* HasRoom refusing one character early
HasRoom_Early(n) == n < MORSECALC_TOKEN_LEN - 2

\* default: whether the token has room for one more character
HasRoom(n) == n < MORSECALC_TOKEN_LEN - 1

\* default: add character dec to the token
AddChar(tok, n, dec) == [token |-> [tok EXCEPT ![n] = dec], idxt |-> n + 1]

-----------------------------------------------------------------------------
(* Renderer *)

\* if(digits>9999) digits = 1000
CarryDigits(scaled) == IF scaled > 9999 THEN 1000 ELSE scaled

\* CarryOm without the om++
CarryOm_Kept(scaled, om) == om

\* if(digits>9999) om++
CarryOm(scaled, om) == IF scaled > 9999 THEN om + 1 ELSE om

\* morsecalc_print_float(d): the displays that printing value v on display d
\* can leave (one display, unless the conversion of line 66 is undefined).
\* The value is the decimal m * 10^e; its order of magnitude and its scaling
\* to four digits are computed exactly.
morsecalc_print_float(d, v) ==
    CASE v.k = "zero" -> {watch_display_string(d, Chars6("     0"), 4)}
      [] v.k = "nan" -> {watch_display_string(d, Chars6("   nan"), 4)}
      [] v.k = "inf" -> {watch_display_string(d, Chars6("   inf"), 4)}
      [] v.k = "ninf" ->
            {watch_display_string(watch_display_character(d, "-", 1), Chars6("   inf"), 4)}
      [] OTHER ->
        LET is_negative == v.neg
            nd == NumDigits(v.m)
            om0 == nd - 1 + v.e
            om_is_negative == IF om0 < 0 THEN 1 ELSE 0
            \* round(d * pow(10, 3 - om)), halves away from zero; +infinity
            \* when pow overflows
            rounded == IF 3 - om0 > DBL_MAX_10_EXP THEN IntOfInfinity
                       ELSE IF nd <= 4 THEN {v.m * Pow10(4 - nd)}
                       ELSE {(2 * v.m + Pow10(nd - 4)) \div (2 * Pow10(nd - 4))}
            Printed(scaled) ==
                LET digits == CarryDigits(scaled)
                    om1 == CarryOm(scaled, om0)
                    d1 == watch_display_character(d, IF is_negative THEN "-" ELSE " ", 1)
                    d2 == watch_display_character(d1,
                              IF om_is_negative < 0 THEN "-" ELSE " ", 2)
                    d3 == watch_display_character(d2, CharPlus0(CMod(CDiv(digits, 1000), 10)), 4)
                    d4 == watch_display_character(d3, CharPlus0(CMod(CDiv(digits, 100), 10)), 5)
                    d5 == watch_display_character(d4, CharPlus0(CMod(CDiv(digits, 10), 10)), 6)
                    d6 == watch_display_character(d5, CharPlus0(CMod(digits, 10)), 7)
                    om == IF om_is_negative # 0 THEN -om1 ELSE om1
                IN  IF om <= 99
                    THEN watch_display_character(
                            watch_display_character(d6, CharPlus0(CMod(CDiv(om, 10), 10)), 8),
                            CharPlus0(CMod(om, 10)), 9)
                    ELSE LET d7 == watch_display_string(d6,
                                     IF om_is_negative # 0 THEN Chars6("    uf")
                                     ELSE Chars6("    of"), 4)
                         IN  IF om < 9999
                             THEN watch_display_character(
                                    watch_display_character(
                                      watch_display_character(
                                        watch_display_character(d7,
                                          CharPlus0(CMod(CDiv(om, 1000), 10)), 4),
                                        CharPlus0(CMod(CDiv(om, 100), 10)), 5),
                                      CharPlus0(CMod(CDiv(om, 10), 10)), 6),
                                    CharPlus0(CMod(om, 10)), 7)
                             ELSE d7
        IN  {Printed(scaled) : scaled \in rounded}

\* TokenShown starting at the head of the token
TokenShown_Head(tok) == SubSeq(CString(tok, 0), 1, Min(strlen(tok), 6))

\* mcs->token+nlen-nprint: the string morsecalc_print_token prints
TokenShown(tok) == CString(tok, strlen(tok) - Min(strlen(tok), 6))

\* ModeChar without the replacement of NUL
ModeChar_Raw(dec) == dec

\* if('\0' == c) c = ' ': the character shown in the mode position
ModeChar(dec) == IF dec = NUL THEN " " ELSE dec

\* morsecalc_print_token without the clearing of the display
morsecalc_print_token_NoClear(d, buf, tok) ==
    LET dec == mc_dec(buf)
        c == ModeChar(dec)
        d1 == watch_display_character(d, c, 0)
        d2 == watch_display_character(d1, CharPlus0(Len(buf)), 3)
        nlen == strlen(tok)
        nprint == Min(nlen, 6)
    IN  watch_display_string(d2, TokenShown(tok), 10 - nprint)

\* morsecalc_print_token: the display it leaves
morsecalc_print_token(d, buf, tok) ==
    LET d0 == watch_display_string(d, Blank10, 0)
        dec == mc_dec(buf)
        c == ModeChar(dec)
        d1 == watch_display_character(d0, c, 0)
        d2 == watch_display_character(d1, CharPlus0(Len(buf)), 3)
        nlen == strlen(tok)
        nprint == Min(nlen, 6)
    IN  watch_display_string(d2, TokenShown(tok), 10 - nprint)

\* morsecalc_print_stack: the stack item selected by the symbol buffer
StackIdx(buf) ==
    LET c == mc_dec(buf)
    IN  IF c \in {Digits[i] : i \in 1..10}
        THEN (CHOOSE i \in 1..10 : Digits[i] = c) - 1
        ELSE 0

\* StackEmptyAt comparing with > instead of >=
StackEmptyAt_Gt(idx, s) == idx > s

\* morsecalc_print_stack: whether the " empty" literal replaces the stack item
StackEmptyAt(idx, s) == idx >= s

\* morsecalc_print_stack: the indices of cs->stack it reads
StackReads(buf, stk) ==
    IF StackEmptyAt(StackIdx(buf), Len(stk)) THEN {}
    ELSE {Len(stk) - 1 - StackIdx(buf)}

\* morsecalc_print_stack: the displays it can leave; junk is what a read
\* outside the stack would yield
morsecalc_print_stack(d, buf, stk, junk) ==
    LET d0 == watch_display_string(d, Blank10, 0)
        idx == StackIdx(buf)
        s == Len(stk)
        at == s - 1 - idx
        ds == IF StackEmptyAt(idx, s)
              THEN {watch_display_string(d0, Chars6(" empty"), 4)}
              ELSE morsecalc_print_float(d0, IF at \in 0..(s - 1) THEN stk[at + 1] ELSE junk)
    IN  {watch_display_character(watch_display_character(d1, CharPlus0(idx), 0),
                                 CharPlus0(s), 3) : d1 \in ds}

\* PrintError with the literals of -1 and -2 exchanged
PrintError_Swapped(d, status) ==
    CASE status = 0 -> d
      [] status = -1 -> watch_display_string(d, Chars6("stkerr"), 4)
      [] status = -2 -> watch_display_string(d, Chars6("cmderr"), 4)
      [] OTHER -> watch_display_string(d, Chars6("   err"), 4)

\* morsecalc_input, switch(status): the error literal written over positions 4..9
PrintError(d, status) ==
    CASE status = 0 -> d
      [] status = -1 -> watch_display_string(d, Chars6("cmderr"), 4)
      [] status = -2 -> watch_display_string(d, Chars6("stkerr"), 4)
      [] OTHER -> watch_display_string(d, Chars6("   err"), 4)

-----------------------------------------------------------------------------
(* morsecalc_input *)

\* DispatchCase submitting the token at an invalid character as well
DispatchCase_NulSubmits(dec) ==
    CASE dec = NUL -> "submit"
      [] dec = " " -> "submit"
      [] dec = "(" -> "erase"
      [] dec = "S" -> "clear"
      [] OTHER -> "append"

\* DispatchCase without the case 'S'
DispatchCase_NoClear(dec) ==
    CASE dec = NUL -> "ignore"
      [] dec = " " -> "submit"
      [] dec = "(" -> "erase"
      [] OTHER -> "append"

\* switch(dec): which case of the dispatcher a decoded character selects
DispatchCase(dec) ==
    CASE dec = NUL -> "ignore"
      [] dec = " " -> "submit"
      [] dec = "(" -> "erase"
      [] dec = "S" -> "clear"
      [] OTHER -> "append"

\* case ' ' : the string handed to calc_input
SubmitArg(tok) == CString(tok, 0)

\* BufferAfterDecode with the mc_reset call left out
BufferAfterDecode_Kept(buf) == buf

\* the symbol buffer after the decode of a finished character
BufferAfterDecode(buf) == mc_reset

\* TokenAfterSubmit clearing the token only when the calculator accepted it
TokenAfterSubmit_OnSuccess(tok, n, status) ==
    IF status = 0 THEN morsecalc_reset_token ELSE [token |-> tok, idxt |-> n]

\* case ' ' : the token after calc_input has returned status
TokenAfterSubmit(tok, n, status) == morsecalc_reset_token

\* case 'S' : the token after the clear
TokenAfterClear(tok, n) == morsecalc_reset_token

\* InputSymbol rendering the token view before the symbol is stored
InputSymbol_RenderFirst(c) ==
    /\ b' = mc_input(b, c)
    /\ display' = PrintError(morsecalc_print_token(display, b, token), 0)
    /\ view' = "token"
    /\ reads' = {}
    /\ calcLog' = <<>>
    /\ did' = NoDispatch(display)
    /\ UNCHANGED <<ctx, token, idxt, stack, moved>>

\* morsecalc_input(mcs, c), c a dot or a dash
InputSymbol(c) ==
    /\ b' = mc_input(b, c)
    /\ display' = PrintError(morsecalc_print_token(display, b', token), 0)
    /\ view' = "token"
    /\ reads' = {}
    /\ calcLog' = <<>>
    /\ did' = NoDispatch(display)
    /\ UNCHANGED <<ctx, token, idxt, stack, moved>>

\* morsecalc_input(mcs, 'x'): a Morse character is finished
InputComplete ==
    LET dec == mc_dec(b)
        which == DispatchCase(dec)
    IN  /\ b' = BufferAfterDecode(b)
        /\ did' = [case |-> IF which = "append" /\ ~HasRoom(idxt) THEN "full" ELSE which,
                   n0 |-> idxt, err0 |-> ErrShown(display)]
        /\ IF which = "ignore" THEN
                /\ display' = PrintError(morsecalc_print_token(display, b', token), 0)
                /\ view' = "token"
                /\ reads' = {}
                /\ calcLog' = <<>>
                /\ UNCHANGED <<token, idxt, stack>>
           ELSE IF which = "submit" THEN
                \E r \in calc_input(stack, SubmitArg(token)), junk \in Vals :
                    LET t == TokenAfterSubmit(token, idxt, r.status)
                    IN  /\ calcLog' = <<[token |-> SubmitArg(token), status |-> r.status]>>
                        /\ stack' = r.stack
                        /\ token' = t.token
                        /\ idxt' = t.idxt
                        /\ \E d1 \in morsecalc_print_stack(display, b', stack', junk) :
                              display' = PrintError(d1, r.status)
                        /\ view' = "stack"
                        /\ reads' = StackReads(b', stack')
           ELSE IF which = "erase" THEN
                LET t == EraseLast(token, idxt)
                IN  /\ token' = t.token
                    /\ idxt' = t.idxt
                    /\ display' = PrintError(morsecalc_print_token(display, b', token'), 0)
                    /\ view' = "token"
                    /\ reads' = {}
                    /\ calcLog' = <<>>
                    /\ UNCHANGED stack
           ELSE IF which = "clear" THEN
                \E junk \in Vals :
                    LET t == TokenAfterClear(token, idxt)
                    IN  /\ token' = t.token
                        /\ idxt' = t.idxt
                        /\ \E d1 \in morsecalc_print_stack(display, b', stack, junk) :
                              display' = PrintError(d1, 0)
                        /\ view' = "stack"
                        /\ reads' = StackReads(b', stack)
                        /\ calcLog' = <<>>
                        /\ UNCHANGED stack
           ELSE IF HasRoom(idxt) THEN
                LET t == AddChar(token, idxt, dec)
                IN  /\ token' = t.token
                    /\ idxt' = t.idxt
                    /\ display' = PrintError(morsecalc_print_token(display, b', token'), 0)
                    /\ view' = "token"
                    /\ reads' = {}
                    /\ calcLog' = <<>>
                    /\ UNCHANGED stack
           ELSE
                /\ display' = PrintError(
                      watch_display_string(display, Chars6("  full"), 4), 0)
                /\ calcLog' = <<>>
                /\ UNCHANGED <<token, idxt, stack, view, reads>>
        /\ UNCHANGED <<ctx, moved>>

-----------------------------------------------------------------------------
(* Lifecycle hooks *)

Init ==
    /\ ctx = FALSE
    /\ b = <<>>
    /\ token = EmptyToken
    /\ idxt = 0
    /\ stack = <<>>
    /\ display = Blank10
    /\ view = "none"
    /\ calcLog = <<>>
    /\ reads = {}
    /\ did = [case |-> "none", n0 |-> 0, err0 |-> FALSE]
    /\ moved = FALSE

\* SetupSession creating the session whether or not one exists
SetupSession_Always(c, buf, tok, n, stk) ==
    [ctx |-> TRUE, token |-> morsecalc_reset_token.token,
     idxt |-> morsecalc_reset_token.idxt, stack |-> calc_init, b |-> mc_reset]

\* morsecalc_face_setup: the session it leaves; c tells whether *context_ptr
\* is non-NULL
SetupSession(c, buf, tok, n, stk) ==
    IF ~c
    THEN [ctx |-> TRUE, token |-> morsecalc_reset_token.token,
          idxt |-> morsecalc_reset_token.idxt, stack |-> calc_init, b |-> mc_reset]
    ELSE [ctx |-> c, token |-> tok, idxt |-> n, stack |-> stk, b |-> buf]

\* morsecalc_face_setup, recorded as the dispatch record
SetupHook(record) ==
    /\ LET s == SetupSession(ctx, b, token, idxt, stack)
       IN  /\ ctx' = s.ctx
           /\ token' = s.token
           /\ idxt' = s.idxt
           /\ stack' = s.stack
           /\ b' = s.b
    /\ calcLog' = <<>>
    /\ did' = record
    /\ UNCHANGED <<display, view, reads, moved>>

\* morsecalc_face_setup
Setup == SetupHook(NoDispatch(display))

\* ActivateReset clearing the token as well
ActivateReset_Token(buf, tok, n) ==
    [b |-> mc_reset, token |-> morsecalc_reset_token.token,
     idxt |-> morsecalc_reset_token.idxt]

\* morsecalc_face_activate: the symbol buffer and the token it leaves
ActivateReset(buf, tok, n) == [b |-> mc_reset, token |-> tok, idxt |-> n]

\* morsecalc_face_activate
Activate ==
    /\ ctx /\ ~moved
    /\ \E junk \in Vals :
         LET a == ActivateReset(b, token, idxt)
         IN  /\ b' = a.b
             /\ token' = a.token
             /\ idxt' = a.idxt
             /\ display' \in morsecalc_print_stack(display, b', stack, junk)
             /\ reads' = StackReads(b', stack)
    /\ view' = "stack"
    /\ calcLog' = <<>>
    /\ did' = [case |-> "activate", n0 |-> idxt, err0 |-> ErrShown(display)]
    /\ UNCHANGED <<ctx, stack, moved>>

\* morsecalc_face_loop: EVENT_TIMEOUT
Timeout ==
    /\ ctx /\ ~moved
    /\ moved' = TRUE
    /\ calcLog' = <<>>
    /\ did' = NoDispatch(display)
    /\ UNCHANGED <<ctx, b, token, idxt, stack, display, view, reads>>

\* morsecalc_face_loop: EVENT_MODE_LONG_PRESS
ModeLongPress ==
    /\ ctx /\ ~moved
    /\ moved' = TRUE
    /\ calcLog' = <<>>
    /\ did' = NoDispatch(display)
    /\ UNCHANGED <<ctx, b, token, idxt, stack, display, view, reads>>

\* the events morsecalc_face_loop tells apart, and any other
EventTypes ==
    {"EVENT_TIMEOUT", "EVENT_MODE_LONG_PRESS", "EVENT_LIGHT_LONG_PRESS",
     "EVENT_ALARM_LONG_PRESS", "EVENT_ALARM_BUTTON_UP", "EVENT_LIGHT_BUTTON_UP",
     "EVENT_MODE_BUTTON_UP", "other"}

\* morsecalc_face_loop: the value returned after the switch
LoopResult(event_type) == TRUE

\* ShowStack resetting the symbol buffer as activate does
ShowStack_Reset ==
    /\ b' = mc_reset
    /\ \E junk \in Vals : display' \in morsecalc_print_stack(display, b', stack, junk)
    /\ view' = "stack"
    /\ reads' = StackReads(b', stack)
    /\ calcLog' = <<>>
    /\ did' = NoDispatch(display)
    /\ UNCHANGED <<ctx, token, idxt, stack, moved>>

\* morsecalc_face_loop: the stack view of a long press
ShowStack ==
    /\ \E junk \in Vals : display' \in morsecalc_print_stack(display, b, stack, junk)
    /\ view' = "stack"
    /\ reads' = StackReads(b, stack)
    /\ calcLog' = <<>>
    /\ did' = NoDispatch(display)
    /\ UNCHANGED <<ctx, b, token, idxt, stack, moved>>

\* morsecalc_face_loop: EVENT_LIGHT_LONG_PRESS
LightLongPress == ctx /\ ~moved /\ ShowStack

\* morsecalc_face_loop: EVENT_ALARM_LONG_PRESS
AlarmLongPress == ctx /\ ~moved /\ ShowStack

\* morsecalc_face_loop: EVENT_ALARM_BUTTON_UP, a dot
AlarmButtonUp == ctx /\ ~moved /\ InputSymbol(DOT)

\* morsecalc_face_loop: EVENT_LIGHT_BUTTON_UP, a dash
LightButtonUp == ctx /\ ~moved /\ InputSymbol(DASH)

\* morsecalc_face_loop: EVENT_MODE_BUTTON_UP, the character is complete
ModeButtonUp == ctx /\ ~moved /\ InputComplete

\* morsecalc_face_resign, called by movement when the face is left
Resign ==
    /\ ctx
    /\ moved' = FALSE
    /\ calcLog' = <<>>
    /\ did' = NoDispatch(display)
    /\ UNCHANGED <<ctx, b, token, idxt, stack, display, view, reads>>

Next ==
    \/ Setup
    \/ Activate
    \/ Timeout
    \/ ModeLongPress
    \/ LightLongPress
    \/ AlarmLongPress
    \/ AlarmButtonUp
    \/ LightButtonUp
    \/ ModeButtonUp
    \/ Resign

Spec == Init /\ [][Next]_vars

-----------------------------------------------------------------------------
(* The lifecycle of the session: setup, activate and resign between the     *)
(* input events, every call of setup recorded                               *)

\* morsecalc_face_setup, recorded with the token length it found
SetupLogged ==
    SetupHook([case |-> "setup", n0 |-> idxt, err0 |-> ErrShown(display)])

LifecycleNext ==
    \/ SetupLogged
    \/ Activate
    \/ AlarmButtonUp
    \/ LightButtonUp
    \/ ModeButtonUp
    \/ Resign

LifecycleSpec == Init /\ [][LifecycleNext]_vars

-----------------------------------------------------------------------------
(* morsecalc_print_float over a range of doubles: a session whose stack     *)
(* holds one double, shown by a long press                                   *)

\* the orders of magnitude floor(log10 |d|) of the doubles printed
FloatOrders == {-310, -306, -305, -101, -100, -99, -3, -2, -1, 0, 1, 3, 98, 99, 100, 307}

\* their decimal digits
FloatMantissas == {1, 25, 271, 9999, 12345, 99994, 99996}

\* the doubles printed: finite nonzero ones of both signs, zero, nan, the infinities
FloatVals ==
    {Fin(neg, m, om - (NumDigits(m) - 1)) :
        neg \in BOOLEAN, m \in FloatMantissas, om \in FloatOrders}
      \cup {[k |-> "zero"], [k |-> "nan"], [k |-> "inf"], [k |-> "ninf"]}

FloatInit ==
    /\ ctx = TRUE
    /\ b = <<>>
    /\ token = EmptyToken
    /\ idxt = 0
    /\ stack \in {<<v>> : v \in FloatVals}
    /\ display = Blank10
    /\ view = "none"
    /\ calcLog = <<>>
    /\ reads = {}
    /\ did = [case |-> "none", n0 |-> 0, err0 |-> FALSE]
    /\ moved = FALSE

FloatNext == LightLongPress

FloatSpec == FloatInit /\ [][FloatNext]_vars

-----------------------------------------------------------------------------
(* Vocabulary of the properties *)

ErrorLiterals == {Chars6("cmderr"), Chars6("stkerr"), Chars6("   err")}

\* the token as the sequence of its characters before index n
Prefix(tok, n) == [i \in 1..n |-> tok[i - 1]]

\* a character-complete event whose decoded character selects case which
CompleteAs(which) ==
    did'.case \notin {"none", "activate"} /\ DispatchCase(mc_dec(b)) = which /\ ModeButtonUp

-----------------------------------------------------------------------------
(* C1 - C5 *)

\* C1: when a character-complete event decodes to the submit character,
\* calc_input is called exactly once, with the token as it was before the
\* event, and afterwards the token is empty (idxt = 0, every byte NUL),
\* whatever status calc_input returned.
C1_SubmitPassesAndClears ==
    [][CompleteAs("submit") =>
          /\ Len(calcLog') = 1
          /\ calcLog'[1].token = Prefix(token, idxt)
          /\ calcLog'[1].status \in StatusCodes
          /\ idxt' = 0
          /\ \A i \in TokenIdx : token'[i] = NUL]_vars

\* a non-empty token was submitted, the calculator rejected it, the token is empty
C1_Witness ==
    /\ did.case = "submit"
    /\ calcLog # <<>>
    /\ Len(calcLog[1].token) >= 2
    /\ calcLog[1].status = -1
    /\ idxt = 0

\* C2: an append character arriving at a token of MORSECALC_TOKEN_LEN-1
\* characters leaves token and idxt unchanged and writes "  full" to display
\* positions 4..9; at a shorter token it is stored at the end and idxt grows
\* by exactly one.
C2_AppendOrFull ==
    [][CompleteAs("append") =>
          IF idxt = MORSECALC_TOKEN_LEN - 1
          THEN /\ token' = token
               /\ idxt' = idxt
               /\ Main(display') = <<" ", " ", "f", "u", "l", "l">>
          ELSE /\ idxt' = idxt + 1
               /\ Prefix(token', idxt') = Append(Prefix(token, idxt), mc_dec(b))
               /\ Main(display') # <<" ", " ", "f", "u", "l", "l">>]_vars

\* the full indicator is shown over a token of MORSECALC_TOKEN_LEN-1 characters
C2_Witness ==
    /\ did.case = "full"
    /\ idxt = MORSECALC_TOKEN_LEN - 1
    /\ Main(display) = <<" ", " ", "f", "u", "l", "l">>
    /\ token[0] = "1"
    /\ token[MORSECALC_TOKEN_LEN - 2] = "2"

\* C3: in every reachable state 0 <= idxt <= MORSECALC_TOKEN_LEN-1, so the
\* slot token[idxt] lies inside the array and is free for the terminator.
C3_IdxtInRange ==
    /\ idxt \in 0..(MORSECALC_TOKEN_LEN - 1)
    /\ idxt \in DOMAIN token
    /\ token[idxt] = NUL

\* the token holds as many characters as it can
C3_Witness ==
    /\ did.case = "append"
    /\ idxt = MORSECALC_TOKEN_LEN - 1
    /\ token[idxt - 1] # NUL

\* C4: on the erase-last glyph '(' a non-empty token loses exactly its last
\* character, an empty token stays empty with idxt = 0; the calculator is
\* not called and the token view is rendered.
C4_EraseLast ==
    [][CompleteAs("erase") =>
          /\ IF idxt > 0
             THEN /\ idxt' = idxt - 1
                  /\ Prefix(token', idxt') = Prefix(token, idxt - 1)
                  /\ token'[idxt'] = NUL
             ELSE idxt' = 0 /\ token' = token
          /\ calcLog' = <<>>
          /\ stack' = stack
          /\ view' = "token"
          /\ display'[1] = " " /\ display'[4] = "0"
          /\ Main(display') \notin (ErrorLiterals \cup {Chars6("  full")})]_vars

\* the erase-last glyph has been dispatched on an empty token
C4_Witness == did.case = "erase" /\ did.n0 = 0 /\ idxt = 0 /\ view = "token"

\* C5: in the state a character-complete event leaves, whatever was
\* decoded, and in the state an activate leaves, the symbol buffer is empty,
\* and what the event rendered was rendered from the empty buffer: the token
\* view shows no character and length 0, the stack view selects item 0.
C5_BufferResetBeforeRender ==
    did.case # "none" =>
        /\ b = <<>>
        /\ (did.case # "full" /\ view = "token") => (display[1] = " " /\ display[4] = "0")
        /\ (did.case # "full" /\ view = "stack") => display[1] = "0"

\* a digit was decoded and appended, and the token view shows an empty buffer
C5_Witness ==
    /\ did.case = "append"
    /\ token[did.n0] \in {"1", "2"}
    /\ b = <<>>
    /\ display[1] = " " /\ display[4] = "0"

-----------------------------------------------------------------------------
(* C6 - C10 *)

\* C6 as stated: every activate empties the symbol buffer and the token and
\* leaves the calculator stack.
C6_ActivateClearsToken ==
    [][Activate =>
          /\ b' = <<>>
          /\ idxt' = 0
          /\ \A i \in TokenIdx : token'[i] = NUL
          /\ stack' = stack]_vars

\* C6 amended: every activate empties the symbol buffer only; the token and
\* idxt are as they were before, and so is the calculator stack: a token
\* partly entered before the face was left is still there after activate.
C6_ActivateKeepsToken ==
    [][(did'.case = "activate" /\ Activate) =>
          /\ b' = <<>>
          /\ idxt' = idxt
          /\ token' = token
          /\ stack' = stack]_vars

\* the face has been activated over a partly entered token
C6_Witness ==
    /\ did.case = "activate"
    /\ did.n0 > 0
    /\ idxt = did.n0
    /\ token[0] # NUL
    /\ b = <<>>
    /\ stack # <<>>

\* the display positions 4..9 of a stack view of stack stk with no error
StackMain(stk) ==
    {Main(d) : d \in UNION {morsecalc_print_stack(Blank10, <<>>, stk, v) : v \in Vals}}

\* the state was left by a dot or a dash (they render the token view), or by
\* a completed character that is not a submit
AfterInputWithoutSubmit ==
    \/ view = "token"
    \/ did.case \in {"ignore", "erase", "clear", "append", "full"}

\* C7: on a submit the status calc_input returned selects what positions
\* 4..9 show: 0 the stack view as rendered, -1 "cmderr", -2 "stkerr", any
\* other status "   err"; an input event that does not submit shows none of
\* the three literals.
C7_StatusSelectsLiteral ==
    /\ did.case = "submit" =>
          LET st == calcLog[1].status
          IN  /\ Len(calcLog) = 1
              /\ st = 0 => Main(display) \in StackMain(stack)
              /\ st = 0 => Main(display) \notin ErrorLiterals
              /\ st = -1 => Main(display) = <<"c", "m", "d", "e", "r", "r">>
              /\ st = -2 => Main(display) = <<"s", "t", "k", "e", "r", "r">>
              /\ st \notin {0, -1, -2} => Main(display) = <<" ", " ", " ", "e", "r", "r">>
    /\ AfterInputWithoutSubmit => Main(display) \notin ErrorLiterals

\* a submit returned a status other than 0, -1, -2 and "   err" is shown
C7_Witness ==
    /\ did.case = "submit"
    /\ calcLog[1].status = 1
    /\ Main(display) = <<" ", " ", " ", "e", "r", "r">>

\* a dot, a dash, a completed character or a light/alarm long press
InputEvent ==
    \/ did'.case = "none" /\ view' = "token" /\ ~moved'
          /\ (AlarmButtonUp \/ LightButtonUp)
    \/ did'.case \notin {"none", "activate"} /\ ModeButtonUp
    \/ did'.case = "none" /\ view' = "stack" /\ b' = b /\ ~moved /\ ~moved'
          /\ vars' # vars /\ (LightLongPress \/ AlarmLongPress)

\* the hook that just ran produced an error of its own
NewError == did'.case = "full" \/ (did'.case = "submit" /\ calcLog'[1].status # 0)

\* C8: when an error literal is on display, the next input event shows an
\* error literal only if it produces an error itself; otherwise it leaves
\* the token view or the stack view of the new state, with no error literal.
C8_ErrorsAreTransient ==
    [][(ErrShown(display) /\ ctx /\ ~moved /\ InputEvent) =>
          IF NewError
          THEN ErrShown(display')
          ELSE /\ ~ErrShown(display')
               /\ \/ display' = morsecalc_print_token(Blank10, b', token')
                  \/ \E v \in Vals : display' \in morsecalc_print_stack(Blank10, b', stack', v)]_vars

\* a dot arrived while an error literal was shown and the token view is back
C8_Witness ==
    /\ did.err0
    /\ did.case = "none"
    /\ view = "token"
    /\ Len(b) = 1
    /\ ~ErrShown(display)

\* C9: a completed character takes exactly the dispatcher case of its
\* decoded character and renders that case's view: NUL leaves the token
\* (token view); space submits (stack view); '(' deletes the last character
\* (token view); 'S' clears the token without a calc_input call (stack
\* view); any other character is appended (token view) or, the token being
\* full, is dropped under the full indicator.
C9_DispatchTable ==
    [][(did'.case \notin {"none", "activate"} /\ ModeButtonUp) =>
          LET dec == mc_dec(b)
              tokenView == /\ view' = "token"
                           /\ display'[1] = " "
                           /\ display'[4] = "0"
                           /\ ~ErrShown(display')
              stackView == /\ view' = "stack"
                           /\ display'[1] = "0"
                           /\ display'[4] = CharPlus0(Len(stack'))
          IN  CASE dec = NUL ->
                    /\ token' = token /\ idxt' = idxt
                    /\ stack' = stack /\ calcLog' = <<>>
                    /\ tokenView
                [] dec = " " ->
                    /\ Len(calcLog') = 1
                    /\ idxt' = 0 /\ token'[0] = NUL
                    /\ stackView
                [] dec = "(" ->
                    /\ idxt' = (IF idxt > 0 THEN idxt - 1 ELSE 0)
                    /\ Prefix(token', idxt') = Prefix(token, idxt')
                    /\ stack' = stack /\ calcLog' = <<>>
                    /\ tokenView
                [] dec = "S" ->
                    /\ idxt' = 0 /\ token'[0] = NUL
                    /\ stack' = stack /\ calcLog' = <<>>
                    /\ stackView
                    /\ ~ErrShown(display')
                [] OTHER ->
                    /\ stack' = stack /\ calcLog' = <<>>
                    /\ IF idxt < MORSECALC_TOKEN_LEN - 1
                       THEN /\ idxt' = idxt + 1
                            /\ token' = [token EXCEPT ![idxt] = dec]
                            /\ tokenView
                       ELSE /\ token' = token /\ idxt' = idxt
                            /\ view' = view
                            /\ Main(display') = <<" ", " ", "f", "u", "l", "l">>]_vars

\* the clear-all glyph has cleared a non-empty token and the stack view is shown
C9_Witness ==
    /\ did.case = "clear"
    /\ did.n0 > 0
    /\ idxt = 0
    /\ view = "stack"
    /\ calcLog = <<>>

\* the display is the stack view as a render of the current symbol buffer
\* and stack left it: the state an activate, a submit or a clear-all leaves,
\* or, after a long press or any hook that renders nothing, a stack view no
\* error literal was written over
StackRendered ==
    /\ view = "stack"
    /\ \/ did.case \in {"activate", "submit", "clear"}
       \/ did.case = "none" /\ ~ErrShown(display)

\* the digit a character stands for, 0 for any other character
DigitOr0(c) ==
    CASE c = "1" -> 1 [] c = "2" -> 2 [] c = "3" -> 3 [] c = "4" -> 4
      [] c = "5" -> 5 [] c = "6" -> 6 [] c = "7" -> 7 [] c = "8" -> 8
      [] c = "9" -> 9 [] OTHER -> 0

\* C10: every stack-view render selects idx, the digit the symbol buffer
\* decodes to or 0; with idx >= s it shows " empty" and reads no stack item,
\* otherwise it reads exactly stack[s-1-idx], inside 0..s-1.  No read of the
\* stack is ever outside 0..s-1.
C10_StackIndexInRange ==
    /\ StackRendered =>
          LET idx == DigitOr0(mc_dec(b))
              s == Len(stack)
          IN  /\ display[1] = CharPlus0(idx)
              /\ IF idx >= s
                 THEN /\ reads = {}
                      /\ ~ErrShown(display) => Main(display) = <<" ", "e", "m", "p", "t", "y">>
                 ELSE /\ reads = {s - 1 - idx}
                      /\ s - 1 - idx \in 0..(s - 1)
                      /\ Main(display) # <<" ", "e", "m", "p", "t", "y">>
    /\ \A i \in reads : i \in 0..(Len(stack) - 1)

\* digit 1 in the symbol buffer selects the item below the top of a stack of two
C10_Witness ==
    /\ view = "stack"
    /\ mc_dec(b) = "1"
    /\ Len(stack) = 2
    /\ reads = {0}
    /\ display[1] = "1"
    /\ display[4] = "2"

-----------------------------------------------------------------------------
(* Vocabulary of the properties of morsecalc_print_float *)

\* the double on top of the stack has been printed
Printed1 == view = "stack" /\ Len(stack) = 1 /\ reads = {0}

IsFinite(v) == v.k = "fin"

\* floor(log10 |v|)
OrderOf(v) == NumDigits(v.m) - 1 + v.e

\* the integers within half a unit of |v| / 10^(OrderOf(v) - 3): |v| rounded
\* to four significant digits, 10000 when it rounds up to the next power of ten
Round4(v) ==
    LET k == NumDigits(v.m) - 4
    IN  IF k <= 0 THEN {v.m * Pow10(-k)}
        ELSE {n \in {v.m \div Pow10(k), (v.m \div Pow10(k)) + 1} :
                 /\ 2 * (n * Pow10(k) - v.m) <= Pow10(k)
                 /\ 2 * (v.m - n * Pow10(k)) <= Pow10(k)}

RoundsToNextPower(v) == 10000 \in Round4(v)

\* the decimal exponent of v rounded to four significant digits
ExponentOf(v) == IF RoundsToNextPower(v) THEN OrderOf(v) + 1 ELSE OrderOf(v)

Abs(n) == IF n < 0 THEN -n ELSE n

\* the number a sequence of digit characters denotes, -1 if one is no digit
NumberOf(cs) ==
    IF \A i \in 1..Len(cs) : cs[i] \in {Digits[j] : j \in 1..10}
    THEN LET val(c) == (CHOOSE j \in 1..10 : Digits[j] = c) - 1
             RECURSIVE num(_)
             num(n) == IF n = 0 THEN 0 ELSE 10 * num(n - 1) + val(cs[n])
         IN  num(Len(cs))
    ELSE -1

-----------------------------------------------------------------------------
(* C11 - C15 *)

\* C11 as stated: for a finite nonzero value whose decimal exponent is at
\* most 99 in absolute value, display position 2 holds '-' when the exponent
\* is negative and a space when it is not, and position 1 holds '-' or a
\* space according to the sign of the value.
C11_SignsShown ==
    (Printed1 /\ IsFinite(stack[1]) /\ Abs(OrderOf(stack[1])) <= 99
              /\ Abs(ExponentOf(stack[1])) <= 99) =>
        /\ display[2] = (IF stack[1].neg THEN "-" ELSE " ")
        /\ display[3] = (IF ExponentOf(stack[1]) < 0 THEN "-" ELSE " ")

\* C12: for every finite nonzero value whose digits are shown (exponent at
\* most 99 in absolute value), display positions 4..7 hold a number in
\* 1000..9999, the value rounded to four significant digits, and positions
\* 8..9 the absolute value of its decimal exponent; when the rounding reaches
\* 10000 the digits are 1000 and the exponent is that of the next power of
\* ten, for positive and negative orders of magnitude alike.
C12_FourDigitsAndCarry ==
    (Printed1 /\ IsFinite(stack[1]) /\ Abs(ExponentOf(stack[1])) <= 99) =>
        LET v == stack[1]
            n == NumberOf(SubSeq(display, 5, 8))
        IN  /\ n \in 1000..9999
            /\ n \in Round4(v) \/ (RoundsToNextPower(v) /\ n = 1000)
            /\ RoundsToNextPower(v) => n = 1000
            /\ NumberOf(SubSeq(display, 9, 10)) =
                  Abs(IF RoundsToNextPower(v) THEN OrderOf(v) + 1 ELSE OrderOf(v))

\* 0.099996 has been printed as 1000 with exponent 01
C12_Witness ==
    /\ Printed1
    /\ stack[1] = Fin(FALSE, 99996, -6)
    /\ Main(display) = <<"1", "0", "0", "0", "0", "1">>

\* C13 as stated: for every finite nonzero value whose decimal exponent
\* (after the rounding carry) is 100..323 in absolute value, positions 8..9
\* hold "uf" for a negative and "of" for a positive exponent and positions
\* 4..7 the absolute value of the exponent as four digits; for an absolute
\* value of at most 99 positions 8..9 hold the exponent as two digits; no
\* error literal is produced.
C13_ExponentShown ==
    (Printed1 /\ IsFinite(stack[1])) =>
        LET e == ExponentOf(stack[1])
        IN  /\ Abs(e) \in 100..323 =>
                 /\ SubSeq(display, 9, 10) = (IF e < 0 THEN <<"u", "f">> ELSE <<"o", "f">>)
                 /\ NumberOf(SubSeq(display, 5, 8)) = Abs(e)
            /\ Abs(e) <= 99 => NumberOf(SubSeq(display, 9, 10)) = Abs(e)
            /\ ~ErrShown(display)

\* the characters of the display surface: digits, space, hyphen and the
\* letters of the status words
StatusLetters ==
    {"n", "a", "i", "f", "o", "u", "c", "m", "d", "e", "r", "s", "t", "k", "l", "p", "y"}

DigitChars == {Digits[i] : i \in 1..10}

SurfaceChars == DigitChars \cup {" ", "-"} \cup StatusLetters

\* every content of the symbol buffer
MorseBuffers == UNION {[1..n -> {DOT, DASH}] : n \in 0..MC_BUFFER_LEN}

\* the characters the decoder yields
DecodedChars == {mc_dec(buf) : buf \in MorseBuffers} \ {NUL}

C15_SetupIdempotent ==
    [][ /\ (did'.case = "setup" /\ ctx) => UNCHANGED session
        /\ (did'.case = "setup" /\ ~ctx) =>
               /\ ctx'
               /\ token' = EmptyToken /\ idxt' = 0
               /\ b' = <<>>
               /\ stack' = <<>>
        /\ (did'.case = "none" /\ view' = view /\ Resign) => UNCHANGED session
        /\ ctx => ctx' ]_vars

\* setup was called on a session holding a token, symbols and a stack value,
\* and they are all still there
C15_Witness ==
    /\ did.case = "setup"
    /\ did.n0 > 0 /\ idxt = did.n0
    /\ token[0] # NUL
    /\ b # <<>>
    /\ stack # <<>>

-----------------------------------------------------------------------------
(* C16 - C20 *)

\* a dot or dash event
SymbolEvent ==
    /\ did'.case = "none" /\ view' = "token" /\ ~moved'
    /\ AlarmButtonUp \/ LightButtonUp

\* C16: a dot or dash event changes only the symbol buffer (token, idxt and
\* stack are unchanged), calls the calculator not at all, shows no error
\* literal, and renders the token view with the character the buffer now
\* decodes to (blank if none) in position 0 and the buffer length in
\* position 3.
C16_SymbolOnlyBuffer ==
    [][ SymbolEvent =>
            /\ UNCHANGED <<ctx, token, idxt, stack>>
            /\ b' \in {b, Append(b, DOT), Append(b, DASH)}
            /\ calcLog' = <<>>
            /\ ~ErrShown(display')
            /\ display'[1] = (IF mc_dec(b') = NUL THEN " " ELSE mc_dec(b'))
            /\ display'[4] = CharPlus0(Len(b'))
            /\ Main(display') = Main(morsecalc_print_token(Blank10, b', token)) ]_vars

\* the fifth symbol has just completed the erase-last sequence: the token
\* view shows '(' and the length 5, over a token and a stack that are kept
C16_Witness ==
    /\ view = "token" /\ did.case = "none" /\ ~moved
    /\ b = <<DASH, DOT, DASH, DASH, DOT>>
    /\ display[1] = "(" /\ display[4] = "5"
    /\ idxt = 2 /\ display[9] = token[0] /\ display[10] = token[1]
    /\ stack # <<>>

\* a state whose display is a render of the token view
TokenRendered == view = "token" /\ ~ErrShown(display)

\* C17: in every render of the token view the positions 4..9 show the last
\* min(n, 6) characters of the token right-aligned and blanks to their left,
\* n the length of the token: no earlier character of the token and nothing
\* of a previous render.
C17_TokenTailShown ==
    TokenRendered =>
        LET n == strlen(token)
            k == Min(n, 6)
        IN  \A p \in 4..9 :
                display[p + 1] = IF p >= 10 - k THEN token[n - 10 + p] ELSE " "

\* a token of eight characters that differ at both ends of the window has
\* lost its last character: the seven left show their last six, the
\* character before them is not shown
C17_Witness ==
    /\ TokenRendered
    /\ did.case = "erase" /\ did.n0 = 8 /\ idxt = 7
    /\ token[0] # token[1] /\ token[5] # token[6]
    /\ display[5] = token[1] /\ display[10] = token[6]

\* a light or alarm long press
LongPressEvent ==
    /\ did'.case = "none" /\ view' = "stack" /\ ~moved'
    /\ LightLongPress \/ AlarmLongPress

\* a timeout or a mode long press
LeaveEvent ==
    /\ moved' /\ ~moved
    /\ Timeout \/ ModeLongPress

\* C18: a light or alarm long press renders the stack view and changes
\* nothing of the session: symbol buffer (a digit in it keeps selecting the
\* stack item shown), token and stack; a timeout or a mode long press changes
\* nothing of the session, requests the next face and draws nothing;
\* the loop returns true for every event.
C18_LongPressFrame ==
    [][ /\ LongPressEvent =>
              /\ UNCHANGED session
              /\ calcLog' = <<>>
              /\ \E v \in Vals : display' \in morsecalc_print_stack(Blank10, b, stack, v)
              /\ display'[1] = CharPlus0(DigitOr0(mc_dec(b)))
              /\ display'[4] = CharPlus0(Len(stack))
        /\ LeaveEvent =>
              /\ UNCHANGED <<session, display, view>>
              /\ calcLog' = <<>>
        /\ \A e \in EventTypes : LoopResult(e) ]_vars

\* the digit 1 is held in the symbol buffer over a stack of two values and a
\* token: a long press shows item 1 and nothing of the session has changed
C18_Witness ==
    /\ view = "stack" /\ did.case = "none" /\ ~moved
    /\ mc_dec(b) = "1"
    /\ Len(stack) = 2 /\ reads = {0}
    /\ display[1] = "1" /\ display[4] = "2"
    /\ idxt > 0

\* C19: the token is NUL-terminated at its logical length: token[i] is not
\* NUL for i < idxt and NUL for idxt <= i < MORSECALC_TOKEN_LEN, so that
\* strlen(token) = idxt; the string passed to calc_input at a submit is the
\* idxt characters entered, with no character behind them.
C19_TokenTerminated ==
    /\ \A i \in TokenIdx : (token[i] # NUL) <=> (i < idxt)
    /\ strlen(token) = idxt
    /\ did.case = "submit" =>
          /\ Len(calcLog[1].token) = did.n0
          /\ \A i \in 1..did.n0 : calcLog[1].token[i] # NUL

\* a token of six characters has lost its last to an erase: the five left
\* are followed by NULs only
C19_Witness ==
    /\ did.case = "erase" /\ did.n0 = 6 /\ idxt = 5
    /\ token[4] # NUL /\ token[5] = NUL /\ token[6] = NUL
    /\ strlen(token) = 5

\* C20: calc_input is called only by a character-complete event whose
\* decoded character is the submit character, and once by such an event; the
\* calculator stack changes at no other event.
C20_CalcOnlyAtSubmit ==
    [][ /\ (calcLog' # <<>> \/ stack' # stack) =>
              /\ did'.case = "submit"
              /\ mc_dec(b) = " "
              /\ ctx /\ ~moved
        /\ did'.case = "submit" => Len(calcLog') = 1
        /\ did'.case # "submit" => calcLog' = <<>> /\ stack' = stack ]_vars

\* a submit of a token has called calc_input once, with success, over a
\* stack that holds two values
C20_Witness ==
    /\ did.case = "submit" /\ did.n0 > 0
    /\ Len(calcLog) = 1 /\ calcLog[1].status = 0
    /\ Len(stack) = 2

====
